---- MODULE Spec2Model ----
(***************************************************************************)
(* Model of sqlx-sqlite/src/options/temp.rs: SqliteTempPath, a handle      *)
(* sharing (Arc) a once-initialised cell (OnceCell) that owns a            *)
(* tempfile::TempDir.                                                      *)
(*                                                                         *)
(* A cell is the Arc allocation: its strong count, the OnceCell's state    *)
(* (Empty = incomplete, Materializing = an initializer is running,         *)
(* Materialized = complete) and the TempDir it holds.  Handles are the     *)
(* SqliteTempPath values the callers hold.  A call is one invocation of    *)
(* force_create_blocking, force_create or create, run step by step so that *)
(* calls interleave.  The filesystem is the set of directories that exist. *)
(***************************************************************************)
EXTENDS Integers, FiniteSets, Sequences, TLC

\* ------------------------------------------------------------------ bounds
MaxCells == 1
MaxHandles == 2
MaxCalls == 2

Cells == 1..MaxCells
Calls == 1..MaxCalls
\* io::Error kinds the directory provider may return
Errs == {"PermissionDenied", "StorageFull"}
\* every directory is made by one provider attempt or adopted by one cell
Dirs == 1..(MaxCalls + MaxCells)

\* the OnceCell holds no TempDir
NoDir == 0

VARIABLES
    cellState,   \* cell -> "Unalloc" | "Empty" | "Materializing" | "Materialized" | "Freed"
    cellValue,   \* cell -> the directory of the TempDir in the OnceCell, or NoDir
                 \*         (of a Freed cell: the directory it held when it was dropped)
    cellOrigin,  \* cell -> "none" | "lazy" | "create" | "from_tempdir"
    strong,      \* cell -> Arc strong count
    handles,     \* cell -> how many SqliteTempPath values the callers hold on it
    calls,       \* call -> its record (see IdleCall)
    fs,          \* the directories that exist on disk
    nextDir,     \* the next unique directory name the provider hands out
    removed      \* directory -> how many times it was deleted

vars == <<cellState, cellValue, cellOrigin, strong, handles, calls, fs, nextDir, removed>>

\* ----------------------------------------------------------------- results
\* an io::Result: Ok carries a path (the directory's name), Err the io::Error
NoRes == [tag |-> "none", val |-> 0, err |-> "none"]
Ok(v) == [tag |-> "ok", val |-> v, err |-> "none"]
Err(e) == [tag |-> "err", val |-> 0, err |-> e]

\* kind:  "none" | "blocking" | "async" | "create"
\* c:     the cell of the handle the call is made on (`self.inner`), 0 if none
\* apc:   the async caller: "na" | "await" | "done" | "cancelled" | "panicked"
\* bpc:   the force_create_blocking body: "na" | "enter" | "init" | "publish" |
\*        "ret" (the closure has its result) | "done"
\* this:  the spawned closure still owns its clone of the handle
\* local: create still owns the handle it made with lazy()
\* att:   the outcome of the provider attempt this call made; attempts counts them
\* bres:  the result the closure handed to the join handle
\* res:   what the call returned to its caller (create: Ok carries the path
\*        of the handle it returns)
IdleCall == [kind |-> "none", c |-> 0, apc |-> "na", bpc |-> "na",
             this |-> FALSE, local |-> FALSE, att |-> NoRes, attempts |-> 0,
             bres |-> NoRes, res |-> NoRes]

Init ==
    /\ cellState = [c \in Cells |-> "Unalloc"]
    /\ cellValue = [c \in Cells |-> NoDir]
    /\ cellOrigin = [c \in Cells |-> "none"]
    /\ strong = [c \in Cells |-> 0]
    /\ handles = [c \in Cells |-> 0]
    /\ calls = [t \in Calls |-> IdleCall]
    /\ fs = {}
    /\ nextDir = 1
    /\ removed = [d \in Dirs |-> 0]

\* ----------------------------------------------------------------- helpers
\* allocation takes the lowest unused slot
FreshCell(c) == cellState[c] = "Unalloc" /\ \A k \in Cells : k < c => cellState[k] # "Unalloc"
FreshCall(t) == calls[t].kind = "none" /\ \A k \in Calls : k < t => calls[k].kind # "none"

RECURSIVE SumOver(_, _)
SumOver(f, S) == IF S = {} THEN 0
                 ELSE LET x == CHOOSE y \in S : TRUE IN f[x] + SumOver(f, S \ {x})

\* the handles in existence: the callers' and the ones create calls own
LocalHandles == Cardinality({t \in Calls : calls[t].local})
HandleRoom == SumOver(handles, Cells) + LocalHandles < MaxHandles

\* the call still runs (its future or its stack frame is alive)
Active(t) ==
    \/ calls[t].kind = "blocking" /\ calls[t].bpc # "done"
    \/ calls[t].kind \in {"async", "create"} /\ calls[t].apc = "await"

\* the call has returned, panicked or been cancelled
Completed(t) ==
    \/ calls[t].kind = "blocking" /\ calls[t].bpc = "done"
    \/ calls[t].kind \in {"async", "create"} /\ calls[t].apc \in {"done", "cancelled", "panicked"}

\* a running force_create_blocking or force_create borrows `&self`, one of
\* the callers' handles on the cell, and a borrowed handle cannot be dropped
Borrowing(c) == \E t \in Calls : /\ Active(t)
                                 /\ calls[t].kind \in {"blocking", "async"}
                                 /\ calls[t].c = c

\* Arc::clone
ArcClone(c) == strong' = [strong EXCEPT ![c] = @ + 1]

\* (faulty variant: every release of an owner removes the directory)
ArcDrop_every_owner(c) ==
    /\ strong' = [strong EXCEPT ![c] = @ - 1]
    /\ cellState' = IF strong[c] = 1 THEN [cellState EXCEPT ![c] = "Freed"] ELSE cellState
    /\ IF cellValue[c] # NoDir /\ cellValue[c] \in fs
       THEN /\ fs' = fs \ {cellValue[c]}
            /\ removed' = [removed EXCEPT ![cellValue[c]] = @ + 1]
       ELSE UNCHANGED <<fs, removed>>

\* Drop for Arc<OnceCell<TempDir>>: the last owner drops the cell, and the
\* TempDir in it (if any) removes its directory.
ArcDrop(c) ==
    /\ strong' = [strong EXCEPT ![c] = @ - 1]
    /\ IF strong[c] = 1
       THEN /\ cellState' = [cellState EXCEPT ![c] = "Freed"]
            /\ IF cellValue[c] # NoDir
               THEN /\ fs' = fs \ {cellValue[c]}
                    /\ removed' = [removed EXCEPT ![cellValue[c]] = @ + 1]
               ELSE UNCHANGED <<fs, removed>>
       ELSE UNCHANGED <<cellState, fs, removed>>

\* ------------------------------------------------------------ constructors
\* (faulty variant: the directory is made at once)
lazy_eager(c) ==
    /\ HandleRoom /\ FreshCell(c)
    /\ nextDir \in Dirs
    /\ fs' = fs \cup {nextDir}
    /\ nextDir' = nextDir + 1
    /\ cellState' = [cellState EXCEPT ![c] = "Materialized"]
    /\ cellValue' = [cellValue EXCEPT ![c] = nextDir]
    /\ cellOrigin' = [cellOrigin EXCEPT ![c] = "lazy"]
    /\ strong' = [strong EXCEPT ![c] = 1]
    /\ handles' = [handles EXCEPT ![c] = 1]
    /\ UNCHANGED <<calls, removed>>

\* SqliteTempPath::lazy
lazy(c) ==
    /\ HandleRoom /\ FreshCell(c)
    /\ cellState' = [cellState EXCEPT ![c] = "Empty"]
    /\ cellOrigin' = [cellOrigin EXCEPT ![c] = "lazy"]
    /\ strong' = [strong EXCEPT ![c] = 1]
    /\ handles' = [handles EXCEPT ![c] = 1]
    /\ UNCHANGED <<cellValue, calls, fs, nextDir, removed>>

\* (faulty variant: the TempDir is not stored, the cell starts empty and the
\* dropped TempDir takes its directory with it)
from_tempdir_empty(c) ==
    /\ HandleRoom /\ FreshCell(c)
    /\ cellState' = [cellState EXCEPT ![c] = "Empty"]
    /\ cellOrigin' = [cellOrigin EXCEPT ![c] = "from_tempdir"]
    /\ strong' = [strong EXCEPT ![c] = 1]
    /\ handles' = [handles EXCEPT ![c] = 1]
    /\ UNCHANGED <<cellValue, calls, fs, nextDir, removed>>

\* SqliteTempPath::from_tempdir: the argument is a TempDir the caller made
\* before the call, so its directory exists; the call itself does no I/O.
from_tempdir(c) ==
    /\ HandleRoom /\ FreshCell(c)
    /\ nextDir \in Dirs
    /\ fs' = fs \cup {nextDir}
    /\ nextDir' = nextDir + 1
    /\ cellState' = [cellState EXCEPT ![c] = "Materialized"]
    /\ cellValue' = [cellValue EXCEPT ![c] = nextDir]
    /\ cellOrigin' = [cellOrigin EXCEPT ![c] = "from_tempdir"]
    /\ strong' = [strong EXCEPT ![c] = 1]
    /\ handles' = [handles EXCEPT ![c] = 1]
    /\ UNCHANGED <<calls, removed>>

\* (faulty variant: the new handle takes no share in the ownership)
clone_unshared(c) ==
    /\ handles[c] >= 1
    /\ HandleRoom
    /\ handles' = [handles EXCEPT ![c] = @ + 1]
    /\ UNCHANGED <<cellState, cellValue, cellOrigin, strong, calls, fs, nextDir, removed>>

\* #[derive(Clone)] on a handle of cell c
clone(c) ==
    /\ handles[c] >= 1
    /\ HandleRoom
    /\ ArcClone(c)
    /\ handles' = [handles EXCEPT ![c] = @ + 1]
    /\ UNCHANGED <<cellState, cellValue, cellOrigin, calls, fs, nextDir, removed>>

\* a handle of cell c goes out of scope; while calls run on the cell's
\* handles, the handle they borrow stays
drop(c) ==
    /\ handles[c] >= 1
    /\ Borrowing(c) => handles[c] >= 2
    /\ ArcDrop(c)
    /\ handles' = [handles EXCEPT ![c] = @ - 1]
    /\ UNCHANGED <<cellValue, cellOrigin, calls, nextDir>>

\* ------------------------------------------------- force_create_blocking
\* the update of one call's record
SetCall(t, r) == calls' = [calls EXCEPT ![t] = r]

\* a caller invokes force_create_blocking on a handle of cell c
force_create_blocking(t, c) ==
    /\ FreshCall(t)
    /\ handles[c] >= 1
    /\ SetCall(t, [IdleCall EXCEPT !.kind = "blocking", !.c = c, !.bpc = "enter"])
    /\ UNCHANGED <<cellState, cellValue, cellOrigin, strong, handles, fs, nextDir, removed>>

\* the body of force_create_blocking ends with result r: a direct call
\* returns it to its caller, a spawned closure holds it
Finish(t, r) ==
    IF calls[t].kind = "blocking"
    THEN [calls[t] EXCEPT !.bpc = "done", !.res = r]
    ELSE [calls[t] EXCEPT !.bpc = "ret", !.bres = r]

\* (faulty variant: the value in the cell is not looked at, the caller
\* initializes again)
get_or_try_init_get_reinit(t) ==
    /\ calls[t].bpc = "enter"
    /\ cellState[calls[t].c] = "Materialized"
    /\ cellState' = [cellState EXCEPT ![calls[t].c] = "Materializing"]
    /\ SetCall(t, [calls[t] EXCEPT !.bpc = "init"])
    /\ UNCHANGED <<cellValue, cellOrigin, strong, handles, fs, nextDir, removed>>

\* OnceCell::get_or_try_init, fast path: the cell already holds a value
get_or_try_init_get(t) ==
    /\ calls[t].bpc = "enter"
    /\ cellState[calls[t].c] = "Materialized"
    /\ SetCall(t, Finish(t, Ok(cellValue[calls[t].c])))
    /\ UNCHANGED <<cellState, cellValue, cellOrigin, strong, handles, fs, nextDir, removed>>

\* (faulty variant: no mutual exclusion, a caller also initializes while
\* another initializer runs)
get_or_try_init_begin_racy(t) ==
    /\ calls[t].bpc = "enter"
    /\ cellState[calls[t].c] \in {"Empty", "Materializing"}
    /\ cellState' = [cellState EXCEPT ![calls[t].c] = "Materializing"]
    /\ SetCall(t, [calls[t] EXCEPT !.bpc = "init"])
    /\ UNCHANGED <<cellValue, cellOrigin, strong, handles, fs, nextDir, removed>>

\* OnceCell::get_or_try_init, slow path: the caller that finds the cell
\* incomplete becomes its initializer; a caller that finds an initializer
\* running waits (no step) until the cell leaves that state.
get_or_try_init_begin(t) ==
    /\ calls[t].bpc = "enter"
    /\ cellState[calls[t].c] = "Empty"
    /\ cellState' = [cellState EXCEPT ![calls[t].c] = "Materializing"]
    /\ SetCall(t, [calls[t] EXCEPT !.bpc = "init"])
    /\ UNCHANGED <<cellValue, cellOrigin, strong, handles, fs, nextDir, removed>>

\* tempfile::Builder::new().prefix(..).suffix(..).tempdir() succeeds: a
\* directory with a fresh unique name now exists
tempdir_ok(t) ==
    /\ calls[t].bpc = "init"
    /\ nextDir \in Dirs
    /\ fs' = fs \cup {nextDir}
    /\ nextDir' = nextDir + 1
    /\ SetCall(t, [calls[t] EXCEPT !.bpc = "publish", !.att = Ok(nextDir),
                                   !.attempts = @ + 1])
    /\ UNCHANGED <<cellState, cellValue, cellOrigin, strong, handles, removed>>

\* ... or fails with an io::Error
tempdir_err(t, e) ==
    /\ calls[t].bpc = "init"
    /\ SetCall(t, [calls[t] EXCEPT !.bpc = "publish", !.att = Err(e),
                                   !.attempts = @ + 1])
    /\ UNCHANGED <<cellState, cellValue, cellOrigin, strong, handles, fs, nextDir, removed>>

\* (faulty variant: a failed initializer leaves the cell marked complete,
\* with nothing in it)
get_or_try_init_end_poisoned(t) ==
    /\ calls[t].bpc = "publish"
    /\ IF calls[t].att.tag = "ok"
       THEN /\ cellValue' = [cellValue EXCEPT ![calls[t].c] = calls[t].att.val]
            /\ SetCall(t, Finish(t, Ok(calls[t].att.val)))
       ELSE /\ SetCall(t, Finish(t, calls[t].att))
            /\ UNCHANGED cellValue
    /\ cellState' = [cellState EXCEPT ![calls[t].c] = "Materialized"]
    /\ UNCHANGED <<cellOrigin, strong, handles, fs, nextDir, removed>>

\* (faulty variant: a failed initializer never leaves the running state)
get_or_try_init_end_stuck(t) ==
    /\ calls[t].bpc = "publish"
    /\ IF calls[t].att.tag = "ok"
       THEN /\ cellValue' = [cellValue EXCEPT ![calls[t].c] = calls[t].att.val]
            /\ cellState' = [cellState EXCEPT ![calls[t].c] = "Materialized"]
            /\ SetCall(t, Finish(t, Ok(calls[t].att.val)))
       ELSE /\ SetCall(t, Finish(t, calls[t].att))
            /\ UNCHANGED <<cellState, cellValue>>
    /\ UNCHANGED <<cellOrigin, strong, handles, fs, nextDir, removed>>

\* (faulty variant: the initializer's value is returned to the caller but
\* not stored, the cell is incomplete again)
get_or_try_init_end_unpublished(t) ==
    /\ calls[t].bpc = "publish"
    /\ cellState' = [cellState EXCEPT ![calls[t].c] = "Empty"]
    /\ SetCall(t, Finish(t, calls[t].att))
    /\ UNCHANGED <<cellValue, cellOrigin, strong, handles, fs, nextDir, removed>>

\* (faulty variant: a failed initializer hands its error to the callers
\* that wait behind it)
get_or_try_init_end_shared_error(t) ==
    /\ calls[t].bpc = "publish"
    /\ IF calls[t].att.tag = "ok"
       THEN /\ cellValue' = [cellValue EXCEPT ![calls[t].c] = calls[t].att.val]
            /\ cellState' = [cellState EXCEPT ![calls[t].c] = "Materialized"]
            /\ SetCall(t, Finish(t, Ok(calls[t].att.val)))
       ELSE /\ cellState' = [cellState EXCEPT ![calls[t].c] = "Empty"]
            /\ calls' = [t2 \in Calls |->
                            IF t2 = t \/ (calls[t2].bpc = "enter" /\ calls[t2].c = calls[t].c)
                            THEN Finish(t2, calls[t].att) ELSE calls[t2]]
            /\ UNCHANGED cellValue
    /\ UNCHANGED <<cellOrigin, strong, handles, fs, nextDir, removed>>

\* the initializer ends: on success the TempDir is stored and the cell is
\* complete; on failure the cell is incomplete again and the error is the
\* result.  Either way the waiters are released.
get_or_try_init_end(t) ==
    /\ calls[t].bpc = "publish"
    /\ IF calls[t].att.tag = "ok"
       THEN /\ cellValue' = [cellValue EXCEPT ![calls[t].c] = calls[t].att.val]
            /\ cellState' = [cellState EXCEPT ![calls[t].c] = "Materialized"]
            /\ SetCall(t, Finish(t, Ok(calls[t].att.val)))
       ELSE /\ cellState' = [cellState EXCEPT ![calls[t].c] = "Empty"]
            /\ SetCall(t, Finish(t, calls[t].att))
            /\ UNCHANGED cellValue
    /\ UNCHANGED <<cellOrigin, strong, handles, fs, nextDir, removed>>

\* ---------------------------------------------------------- force_create
\* (faulty variant: the error is discarded with the path)
MapUnit_swallow(r) == Ok(0)

\* .map(|_| ())
MapUnit(r) == IF r.tag = "ok" THEN Ok(0) ELSE r

\* (faulty variant: the closure works on the caller's handle, it holds no
\* clone of its own)
force_create_unowned(t, c) ==
    /\ FreshCall(t)
    /\ handles[c] >= 1
    /\ SetCall(t, [IdleCall EXCEPT !.kind = "async", !.c = c, !.apc = "await",
                                   !.bpc = "enter"])
    /\ UNCHANGED <<cellState, cellValue, cellOrigin, strong, handles, fs, nextDir, removed>>

\* force_create on a handle of cell c: `this = self.clone()`, then the
\* closure is handed to spawn_blocking and the caller awaits it
force_create(t, c) ==
    /\ FreshCall(t)
    /\ handles[c] >= 1
    /\ ArcClone(c)
    /\ SetCall(t, [IdleCall EXCEPT !.kind = "async", !.c = c, !.apc = "await",
                                   !.bpc = "enter", !.this = TRUE])
    /\ UNCHANGED <<cellState, cellValue, cellOrigin, handles, fs, nextDir, removed>>

\* (faulty variant: the missing runtime is reported as an io::Error)
force_create_no_rt_returns_error(t, c) ==
    /\ FreshCall(t)
    /\ handles[c] >= 1
    /\ SetCall(t, [IdleCall EXCEPT !.kind = "async", !.c = c, !.apc = "done",
                                   !.res = Err("PermissionDenied")])
    /\ UNCHANGED <<cellState, cellValue, cellOrigin, strong, handles, fs, nextDir, removed>>

\* spawn_blocking with no runtime: it panics, and the unwinding drops the
\* closure with the clone in it
force_create_no_rt(t, c) ==
    /\ FreshCall(t)
    /\ handles[c] >= 1
    /\ SetCall(t, [IdleCall EXCEPT !.kind = "async", !.c = c, !.apc = "panicked"])
    /\ UNCHANGED <<cellState, cellValue, cellOrigin, strong, handles, fs, nextDir, removed>>

\* (faulty variant: the closure hands its result over only while the
\* future that awaits it is alive)
closure_exit_needs_awaiter(t) ==
    /\ calls[t].kind \in {"async", "create"}
    /\ calls[t].bpc = "ret"
    /\ calls[t].apc = "await"
    /\ ArcDrop(calls[t].c)
    /\ SetCall(t, [calls[t] EXCEPT !.bpc = "done", !.this = FALSE,
                                   !.bres = MapUnit(calls[t].bres)])
    /\ UNCHANGED <<cellValue, cellOrigin, handles, nextDir>>

\* (faulty variant: the TempDir guard lives in the closure, so the directory
\* is removed when the closure returns)
closure_exit_removes_directory(t) ==
    /\ calls[t].kind \in {"async", "create"}
    /\ calls[t].bpc = "ret"
    /\ strong' = [strong EXCEPT ![calls[t].c] = @ - 1]
    /\ cellState' = IF strong[calls[t].c] = 1
                    THEN [cellState EXCEPT ![calls[t].c] = "Freed"] ELSE cellState
    /\ IF cellValue[calls[t].c] \in fs
       THEN /\ fs' = fs \ {cellValue[calls[t].c]}
            /\ removed' = [removed EXCEPT ![cellValue[calls[t].c]] = @ + 1]
       ELSE UNCHANGED <<fs, removed>>
    /\ SetCall(t, [calls[t] EXCEPT !.bpc = "done", !.this = FALSE,
                                   !.bres = MapUnit(calls[t].bres)])
    /\ UNCHANGED <<cellValue, cellOrigin, handles, nextDir>>

\* the closure returns: its result is mapped to (), `this` is dropped, and
\* the join handle is completed
closure_exit(t) ==
    /\ calls[t].kind \in {"async", "create"}
    /\ calls[t].bpc = "ret"
    /\ ArcDrop(calls[t].c)
    /\ SetCall(t, [calls[t] EXCEPT !.bpc = "done", !.this = FALSE,
                                   !.bres = MapUnit(calls[t].bres)])
    /\ UNCHANGED <<cellValue, cellOrigin, handles, nextDir>>

\* what the awaiter does with the closure's result: `?` returns the error,
\* otherwise self.inner.get() is read and expected to hold the TempDir
ReadBack(t) ==
    IF calls[t].bres.tag = "err" THEN [pc |-> "done", res |-> calls[t].bres]
    ELSE IF cellState[calls[t].c] = "Materialized"
         THEN [pc |-> "done", res |-> Ok(cellValue[calls[t].c])]
         ELSE [pc |-> "panicked", res |-> NoRes]

\* the await completes
force_create_resume(t) ==
    /\ calls[t].kind = "async"
    /\ calls[t].apc = "await"
    /\ calls[t].bpc = "done"
    /\ SetCall(t, [calls[t] EXCEPT !.apc = ReadBack(t).pc, !.res = ReadBack(t).res])
    /\ UNCHANGED <<cellState, cellValue, cellOrigin, strong, handles, fs, nextDir, removed>>

\* the future is dropped while it is pending; the spawned closure is detached
force_create_cancel(t) ==
    /\ calls[t].kind = "async"
    /\ calls[t].apc = "await"
    /\ SetCall(t, [calls[t] EXCEPT !.apc = "cancelled"])
    /\ UNCHANGED <<cellState, cellValue, cellOrigin, strong, handles, fs, nextDir, removed>>

\* ---------------------------------------------------------------- create
\* create: `this = Self::lazy()`, then this.force_create() is awaited
create(t, c) ==
    /\ FreshCall(t) /\ FreshCell(c) /\ HandleRoom
    /\ cellState' = [cellState EXCEPT ![c] = "Empty"]
    /\ cellOrigin' = [cellOrigin EXCEPT ![c] = "create"]
    /\ strong' = [strong EXCEPT ![c] = 2]
    /\ SetCall(t, [IdleCall EXCEPT !.kind = "create", !.c = c, !.apc = "await",
                                   !.bpc = "enter", !.this = TRUE, !.local = TRUE])
    /\ UNCHANGED <<cellValue, handles, fs, nextDir, removed>>

\* create with no runtime: the panic unwinds through create, dropping `this`
\* and with it the cell lazy() had just made
create_no_rt(t, c) ==
    /\ FreshCall(t) /\ FreshCell(c)
    /\ cellState' = [cellState EXCEPT ![c] = "Freed"]
    /\ cellOrigin' = [cellOrigin EXCEPT ![c] = "create"]
    /\ SetCall(t, [IdleCall EXCEPT !.kind = "create", !.c = c, !.apc = "panicked"])
    /\ UNCHANGED <<cellValue, strong, handles, fs, nextDir, removed>>

\* the await in create completes with a path: Ok(this), the handle is the
\* caller's from now on
create_return_ok(t) ==
    /\ calls[t].kind = "create"
    /\ calls[t].apc = "await"
    /\ calls[t].bpc = "done"
    /\ ReadBack(t).res.tag = "ok"
    /\ handles' = [handles EXCEPT ![calls[t].c] = @ + 1]
    /\ SetCall(t, [calls[t] EXCEPT !.apc = "done", !.res = ReadBack(t).res,
                                   !.local = FALSE])
    /\ UNCHANGED <<cellState, cellValue, cellOrigin, strong, fs, nextDir, removed>>

\* (faulty variant: the error is ignored and the handle returned)
create_return_err_ignored(t) ==
    /\ calls[t].kind = "create"
    /\ calls[t].apc = "await"
    /\ calls[t].bpc = "done"
    /\ ReadBack(t).res.tag # "ok"
    /\ handles' = [handles EXCEPT ![calls[t].c] = @ + 1]
    /\ SetCall(t, [calls[t] EXCEPT !.apc = "done", !.res = Ok(cellValue[calls[t].c]),
                                   !.local = FALSE])
    /\ UNCHANGED <<cellState, cellValue, cellOrigin, strong, fs, nextDir, removed>>

\* the await in create completes with an error (`?`) or panics: `this` is dropped
create_return_err(t) ==
    /\ calls[t].kind = "create"
    /\ calls[t].apc = "await"
    /\ calls[t].bpc = "done"
    /\ ReadBack(t).res.tag # "ok"
    /\ ArcDrop(calls[t].c)
    /\ SetCall(t, [calls[t] EXCEPT !.apc = ReadBack(t).pc, !.res = ReadBack(t).res,
                                   !.local = FALSE])
    /\ UNCHANGED <<cellValue, cellOrigin, handles, nextDir>>

\* the create future is dropped while it is pending: `this` is dropped, the
\* spawned closure is detached
create_cancel(t) ==
    /\ calls[t].kind = "create"
    /\ calls[t].apc = "await"
    /\ ArcDrop(calls[t].c)
    /\ SetCall(t, [calls[t] EXCEPT !.apc = "cancelled", !.local = FALSE])
    /\ UNCHANGED <<cellValue, cellOrigin, handles, nextDir>>

\* ------------------------------------------------------------------ system
Next ==
    \/ \E c \in Cells : lazy(c)
    \/ \E c \in Cells : from_tempdir(c)
    \/ \E c \in Cells : clone(c)
    \/ \E c \in Cells : drop(c)
    \/ \E t \in Calls, c \in Cells : force_create_blocking(t, c)
    \/ \E t \in Calls : get_or_try_init_get(t)
    \/ \E t \in Calls : get_or_try_init_begin(t)
    \/ \E t \in Calls : tempdir_ok(t)
    \/ \E t \in Calls, e \in Errs : tempdir_err(t, e)
    \/ \E t \in Calls : get_or_try_init_end(t)
    \/ \E t \in Calls, c \in Cells : force_create(t, c)
    \/ \E t \in Calls, c \in Cells : force_create_no_rt(t, c)
    \/ \E t \in Calls : closure_exit(t)
    \/ \E t \in Calls : force_create_resume(t)
    \/ \E t \in Calls : force_create_cancel(t)
    \/ \E t \in Calls, c \in Cells : create(t, c)
    \/ \E t \in Calls, c \in Cells : create_no_rt(t, c)
    \/ \E t \in Calls : create_return_ok(t)
    \/ \E t \in Calls : create_return_err(t)
    \/ \E t \in Calls : create_cancel(t)

Spec == Init /\ [][Next]_vars

\* the steps call t takes by itself once it has been made: the body of
\* force_create_blocking (the provider attempt ends one way or the other),
\* the closure's return and the resumption of the awaiting caller
CallStep(t) ==
    \/ get_or_try_init_get(t)
    \/ get_or_try_init_begin(t)
    \/ tempdir_ok(t)
    \/ \E e \in Errs : tempdir_err(t, e)
    \/ get_or_try_init_end(t)
    \/ closure_exit(t)
    \/ force_create_resume(t)
    \/ create_return_ok(t)
    \/ create_return_err(t)

\* every thread and every task that can take a step is eventually scheduled
FairSpec == Spec /\ \A t \in Calls : WF_vars(CallStep(t))

\* ------------------------------------------------------------ sanity
TypeOK ==
    /\ cellState \in [Cells -> {"Unalloc", "Empty", "Materializing", "Materialized", "Freed"}]
    /\ cellValue \in [Cells -> Dirs \cup {NoDir}]
    /\ strong \in [Cells -> 0..(MaxHandles + MaxCalls)]
    /\ handles \in [Cells -> 0..MaxHandles]
    /\ fs \subseteq Dirs
    /\ nextDir \in 1..(MaxCalls + MaxCells + 1)

\* the owners of a cell: the callers' handles, the handles create calls own
\* and the closures in flight
Owners(c) ==
    handles[c]
    + Cardinality({t \in Calls : calls[t].local /\ calls[t].c = c})
    + Cardinality({t \in Calls : calls[t].this /\ calls[t].c = c})

StrongIsOwners ==
    \A c \in Cells : /\ strong[c] = Owners(c)
                     /\ (strong[c] = 0) = (cellState[c] \in {"Unalloc", "Freed"})

\* ================================================================ claims
\* the calls made on a handle of cell c
CallsOn(c) == {t \in Calls : calls[t].kind # "none" /\ calls[t].c = c}

\* the calls that returned Ok to their caller
ReturnedOk(t) == Completed(t) /\ calls[t].res.tag = "ok"

\* the directories the provider made for cell c
CreatedFor(c) == {d \in Dirs : \E t \in CallsOn(c) : calls[t].att = Ok(d)}

\* C1: whatever the clones and the interleaving of force_create and
\* force_create_blocking calls, the provider makes at most one directory for
\* a cell over its whole life, failed attempts and retries included, and
\* all the calls on the cell that return Ok return the same path.
C1_CreatedAtMostOnce ==
    \A c \in Cells :
        /\ Cardinality(CreatedFor(c)) <= 1
        /\ \A t1, t2 \in CallsOn(c) :
               ReturnedOk(t1) /\ ReturnedOk(t2) => calls[t1].res.val = calls[t2].res.val

\* two calls that ran concurrently on one cell both returned Ok, one as the
\* initializer and one without an attempt of its own
C1_Witness ==
    \E c \in Cells : \E t1, t2 \in CallsOn(c) :
        /\ t1 # t2
        /\ ReturnedOk(t1) /\ ReturnedOk(t2)
        /\ calls[t1].attempts = 1 /\ calls[t2].attempts = 0
        /\ calls[t1].kind \in {"blocking", "async"}
        /\ calls[t2].kind \in {"blocking", "async"}
        /\ Cardinality(CreatedFor(c)) = 1

\* C2: a cell's directory exists for as long as the cell has an owner (a
\* caller's handle, the handle inside a create call or a spawned closure),
\* and it has been deleted exactly once when there is none: the deletion
\* happens when the last owner goes, not when an earlier one does.
C2_DeletedOnLastRelease ==
    \A c \in Cells :
        cellValue[c] # NoDir =>
            IF Owners(c) >= 1
            THEN cellValue[c] \in fs /\ removed[cellValue[c]] = 0
            ELSE cellValue[c] \notin fs /\ removed[cellValue[c]] = 1

\* a materialized cell lost all of its owners and its directory is gone
C2_Witness ==
    \E c \in Cells :
        /\ cellState[c] = "Freed"
        /\ cellValue[c] # NoDir
        /\ removed[cellValue[c]] = 1
        /\ cellValue[c] \notin fs

\* the step in which call t ends an initialization that failed
FailedInit(t) ==
    /\ calls[t].bpc = "publish"
    /\ calls[t].att.tag = "err"
    /\ calls'[t].bpc # "publish"

\* C3: the step that ends a failed creation attempt leaves the cell Empty
\* (not Materializing, not complete), and a cell is Materializing only
\* while some call is running its initializer; so a later call on any
\* handle of the cell makes an attempt of its own.
C3_FailureLeavesEmpty ==
    /\ [][\A t \in Calls : FailedInit(t) => cellState'[calls[t].c] = "Empty"]_vars
    /\ [](\A c \in Cells :
            cellState[c] = "Materializing" =>
                \E t \in CallsOn(c) : calls[t].bpc \in {"init", "publish"})

\* a call failed with an io::Error, and a later call on the same cell made
\* its own attempt, materialized the cell and returned the path
C3_Witness ==
    \E c \in Cells : \E t1, t2 \in CallsOn(c) :
        /\ Completed(t1) /\ calls[t1].res.tag = "err"
        /\ ReturnedOk(t2) /\ calls[t2].att = Ok(calls[t2].res.val)
        /\ cellState[c] = "Materialized"
        /\ cellValue[c] = calls[t2].res.val
        /\ cellValue[c] \in fs

\* the step in which call t runs the body of force_create_blocking from
\* its entry on a cell that is already Materialized
EnterMaterialized(t) ==
    /\ calls[t].bpc = "enter"
    /\ cellState[calls[t].c] = "Materialized"
    /\ calls'[t].bpc # "enter"

\* C4: a Materialized cell stays Materialized with the same path until its
\* last owner is gone, and a call that finds it Materialized gets that
\* path in one step that makes no provider attempt and changes nothing on
\* disk.
C4_MaterializedIsStable ==
    [][\A c \in Cells :
          cellState[c] = "Materialized" =>
              /\ cellValue'[c] = cellValue[c]
              /\ cellState'[c] \in {"Materialized", "Freed"}
              /\ cellState'[c] = "Freed" => Owners(c)' = 0
              /\ \A t \in CallsOn(c) :
                    EnterMaterialized(t) =>
                        /\ calls'[t].attempts = 0
                        /\ Ok(cellValue[c]) \in {calls'[t].res, calls'[t].bres}
                        /\ fs' = fs /\ nextDir' = nextDir]_vars

\* a second call on a cell another call materialized returned the stored
\* path without an attempt of its own
C4_Witness ==
    \E c \in Cells : \E t1, t2 \in CallsOn(c) :
        /\ cellOrigin[c] = "lazy"
        /\ calls[t1].kind = "blocking" /\ calls[t2].kind = "blocking"
        /\ ReturnedOk(t1) /\ calls[t1].attempts = 1
        /\ ReturnedOk(t2) /\ calls[t2].attempts = 0
        /\ calls[t2].res.val = cellValue[c]

\* C5: under fair scheduling every call that was made completes (returns,
\* panics or is cancelled) and the body it runs comes to its end: a caller
\* that finds an initializer running is released when that initializer
\* ends, whether it succeeded or failed.
C5_EveryCallCompletes ==
    \A t \in Calls :
        (calls[t].kind # "none") ~> (Completed(t) /\ calls[t].bpc \in {"na", "done"})

\* the safety half of C5, which needs no fairness: a call that has not come
\* to its end can take a step, or waits at a cell whose initializer can
NoCallStuck ==
    \A t \in Calls :
        calls[t].kind # "none" /\ ~(Completed(t) /\ calls[t].bpc \in {"na", "done"}) =>
            \/ ENABLED CallStep(t)
            \/ /\ calls[t].bpc = "enter"
               /\ cellState[calls[t].c] = "Materializing"
               /\ \E t2 \in CallsOn(calls[t].c) \ {t} :
                      calls[t2].bpc \in {"init", "publish"} /\ ENABLED CallStep(t2)

\* a caller waits at the cell while another call runs the initializer
C5_Witness ==
    \E c \in Cells : \E t1, t2 \in CallsOn(c) :
        /\ t1 # t2
        /\ calls[t1].bpc \in {"init", "publish"}
        /\ calls[t2].bpc = "enter"
        /\ cellState[c] = "Materializing"

\* the step that clones a handle of cell c
CloneStep(c) ==
    /\ handles[c] >= 1
    /\ handles'[c] = handles[c] + 1
    /\ calls' = calls

\* the directories accounted for by cell c: the one it adopted and the
\* ones the provider made for it
DirsOf(c) == CreatedFor(c) \cup {d \in Dirs : cellOrigin[c] = "from_tempdir" /\ cellValue[c] = d}

\* C6: the clones of a handle share its cell.  Cloning adds an owner to the
\* cell and changes nothing else: no cell is made, no directory is made or
\* removed.  A cell with a handle on it is there (not dropped), and every
\* call that returned Ok on any handle of the cell returned the one path
\* the cell holds, whichever handle the materialization went through.
C6_ClonesShareCell ==
    /\ [][\A c \in Cells :
             CloneStep(c) =>
                 /\ strong'[c] = strong[c] + 1
                 /\ Owners(c)' = Owners(c) + 1
                 /\ UNCHANGED <<cellState, cellValue, cellOrigin, fs, nextDir, removed>>]_vars
    /\ [](\A c \in Cells :
             /\ handles[c] >= 1 => cellState[c] \in {"Empty", "Materializing", "Materialized"}
             /\ cellState[c] # "Unalloc" => cellOrigin[c] \in {"lazy", "create", "from_tempdir"}
             /\ \A t \in CallsOn(c) : ReturnedOk(t) => calls[t].res.val = cellValue[c])

\* two handles on one cell, materialized by a call, and a second call on it
\* returned the same path
C6_Witness ==
    \E c \in Cells : \E t1, t2 \in CallsOn(c) :
        /\ handles[c] = 2
        /\ cellOrigin[c] = "lazy"
        /\ t1 # t2
        /\ ReturnedOk(t1) /\ ReturnedOk(t2)
        /\ calls[t1].res.val = cellValue[c] /\ calls[t2].res.val = cellValue[c]
        /\ cellState[c] = "Materialized"

\* C7: a cell made by from_tempdir holds the adopted TempDir from the start:
\* it is never Empty or Materializing, no call on its handles makes a
\* provider attempt or fails, and every call that returns, returns the
\* adopted directory's path.
C7_AdoptedIsMaterialized ==
    \A c \in Cells :
        cellOrigin[c] = "from_tempdir" =>
            /\ cellState[c] \in {"Materialized", "Freed"}
            /\ cellValue[c] # NoDir
            /\ CreatedFor(c) = {}
            /\ \A t \in CallsOn(c) :
                  /\ calls[t].attempts = 0 /\ calls[t].att = NoRes
                  /\ calls[t].res.tag # "err" /\ calls[t].bres.tag # "err"
                  /\ calls[t].bpc \notin {"init", "publish"}
                  /\ ReturnedOk(t) => calls[t].res.val = cellValue[c]

\* a blocking and an async call on handles of an adopted cell both returned
\* the adopted path
C7_Witness ==
    \E c \in Cells : \E t1, t2 \in CallsOn(c) :
        /\ cellOrigin[c] = "from_tempdir"
        /\ calls[t1].kind = "blocking" /\ calls[t2].kind = "async"
        /\ ReturnedOk(t1) /\ ReturnedOk(t2)
        /\ calls[t1].res.val = cellValue[c] /\ calls[t2].res.val = cellValue[c]

\* C8: a cell made by lazy() on which no force-create call was ever made is
\* Empty (or dropped) and holds nothing, however its handles were cloned and
\* dropped, and it has touched no directory: every directory that was ever
\* made or removed is accounted for by another cell.
C8_LazyDoesNoIO ==
    \A c \in Cells :
        cellOrigin[c] = "lazy" /\ CallsOn(c) = {} =>
            /\ cellState[c] \in {"Empty", "Freed"}
            /\ cellValue[c] = NoDir
            /\ \A d \in Dirs : d < nextDir => \E c2 \in Cells \ {c} : d \in DirsOf(c2)

\* a lazy handle was cloned and both handles were dropped, with no call
C8_Witness ==
    \E c \in Cells :
        /\ cellOrigin[c] = "lazy"
        /\ CallsOn(c) = {}
        /\ cellState[c] = "Freed"
        /\ \A t \in Calls : calls[t].kind = "none"

\* the step in which the create call t returns to its caller
CreateReturns(t) ==
    /\ calls[t].kind = "create"
    /\ calls[t].apc = "await"
    /\ calls'[t].apc = "done"

\* C9: when create returns Ok, the caller gets a handle on a cell that is
\* Materialized with its directory on disk; when the creation failed,
\* create returns that io::Error, the caller gets no handle, and no
\* directory was made for the cell.  Before create returns Ok there is no
\* handle on its cell.
C9_CreateReturnsMaterialized ==
    /\ [][\A t \in Calls :
             CreateReturns(t) =>
                 IF calls'[t].res.tag = "ok"
                 THEN /\ handles'[calls[t].c] = handles[calls[t].c] + 1
                      /\ cellState'[calls[t].c] = "Materialized"
                      /\ cellValue'[calls[t].c] \in fs'
                      /\ calls'[t].res.val = cellValue'[calls[t].c]
                 ELSE /\ calls[t].att.tag = "err"
                      /\ calls'[t].res = calls[t].att
                      /\ handles' = handles
                      /\ cellState'[calls[t].c] = "Freed"
                      /\ cellValue'[calls[t].c] = NoDir
                      /\ CreatedFor(calls[t].c) = {}]_vars
    /\ [](\A t \in Calls :
             calls[t].kind = "create" /\ ~ReturnedOk(t) => handles[calls[t].c] = 0)

\* a create call returned the io::Error of its failed attempt
C9_Witness ==
    \E t \in Calls :
        /\ calls[t].kind = "create"
        /\ calls[t].apc = "done"
        /\ calls[t].res.tag = "err"
        /\ calls[t].res = calls[t].att
        /\ handles[calls[t].c] = 0
        /\ cellState[calls[t].c] = "Freed"

\* C10: a call makes at most one provider attempt, and when that attempt
\* failed its io::Error is what the body, the closure and the call return:
\* the error is neither replaced, nor swallowed, nor retried away.
C10_ErrorPropagated ==
    \A t \in Calls :
        /\ calls[t].attempts <= 1
        /\ calls[t].att.tag = "err" =>
              /\ calls[t].bpc \in {"ret", "done"} /\ calls[t].kind # "blocking"
                    => calls[t].bres = calls[t].att
              /\ Completed(t) /\ calls[t].apc # "cancelled" => calls[t].res = calls[t].att

\* a force_create call returned the io::Error of its one failed attempt
C10_Witness ==
    \E t \in Calls :
        /\ calls[t].kind = "async"
        /\ calls[t].apc = "done"
        /\ calls[t].attempts = 1
        /\ calls[t].att.tag = "err"
        /\ calls[t].res = calls[t].att

\* the closure of call t was handed to spawn_blocking and has not come to
\* its end
InFlight(t) == calls[t].kind \in {"async", "create"} /\ calls[t].bpc \notin {"na", "done"}

\* a step in which the future of call t is dropped while it awaits
CancelStep(t) == calls[t].apc = "await" /\ calls'[t].apc = "cancelled"

\* C11: when the future awaiting force_create is dropped while the spawned
\* closure is in flight, the closure is not retracted: the cancellation
\* changes neither the closure's position, its clone, its results nor the
\* cell, and under fair scheduling the closure still runs to its end, where
\* a successful attempt of its own has been stored in the cell, the cell
\* having become Materialized with exactly that directory.
C11_CancelDoesNotRetract ==
    /\ [][\A t \in Calls :
              /\ InFlight(t) /\ CancelStep(t) =>
                    /\ calls'[t].bpc = calls[t].bpc
                    /\ calls'[t].this = calls[t].this
                    /\ calls'[t].att = calls[t].att
                    /\ calls'[t].bres = calls[t].bres
                    /\ cellState' = cellState /\ cellValue' = cellValue /\ fs' = fs
              /\ (/\ calls[t].apc = "cancelled"
                  /\ calls[t].bpc = "publish" /\ calls'[t].bpc # "publish"
                  /\ calls[t].att.tag = "ok") =>
                    /\ cellState'[calls[t].c] = "Materialized"
                    /\ cellValue'[calls[t].c] = calls[t].att.val
                    /\ calls[t].att.val \in fs']_vars
    /\ \A t \in Calls :
          (calls[t].apc = "cancelled" /\ InFlight(t)) ~>
              /\ calls[t].bpc = "done"
              /\ calls[t].att.tag = "ok" => cellValue[calls[t].c] = calls[t].att.val

\* the future of a force_create call was dropped while its closure was in
\* flight, and the closure, not yet at its end, has made the directory and
\* stored it in the cell
C11_Witness ==
    \E t \in Calls :
        /\ calls[t].kind = "async"
        /\ calls[t].apc = "cancelled"
        /\ calls[t].bpc = "ret"
        /\ calls[t].attempts = 1
        /\ calls[t].att.tag = "ok"
        /\ cellState[calls[t].c] = "Materialized"
        /\ cellValue[calls[t].c] = calls[t].att.val
        /\ calls[t].att.val \in fs

\* a step in which call t is made and panics at once: spawn_blocking found
\* no runtime
NoRuntimeStep(t) == calls[t].kind = "none" /\ calls'[t].apc = "panicked"

\* C12: a force_create or create call made with no runtime panics: the call
\* ends without a result (no path, no io::Error), no provider attempt is
\* made, nothing is created or removed on disk, and every cell that existed
\* before the call keeps its state, value and owners (the cell create had
\* just made for itself is dropped by the unwinding, empty).  A call ends
\* in a panic only without a result and without having made an attempt.
C12_NoRuntimePanics ==
    /\ [][\A t \in Calls :
              /\ calls[t].kind = "none" /\ calls'[t].kind # "none" =>
                    \/ NoRuntimeStep(t)
                    \/ calls'[t].apc \in {"na", "await"} /\ calls'[t].bpc = "enter"
              /\ NoRuntimeStep(t) =>
                    /\ calls'[t].kind \in {"async", "create"}
                    /\ calls'[t].res = NoRes /\ calls'[t].bres = NoRes
                    /\ calls'[t].att = NoRes /\ calls'[t].attempts = 0
                    /\ calls'[t].bpc = "na" /\ ~calls'[t].this /\ ~calls'[t].local
                    /\ fs' = fs /\ nextDir' = nextDir /\ removed' = removed
                    /\ cellValue' = cellValue /\ handles' = handles /\ strong' = strong
                    /\ \A c \in Cells :
                          \/ cellState'[c] = cellState[c]
                          \/ /\ calls'[t].kind = "create" /\ calls'[t].c = c
                             /\ cellState[c] = "Unalloc" /\ cellState'[c] = "Freed"
                    /\ calls'[t].kind = "async" => cellState' = cellState]_vars
    /\ [](\A t \in Calls :
              calls[t].apc = "panicked" =>
                  calls[t].res = NoRes /\ calls[t].attempts = 0 /\ calls[t].bpc = "na")

\* a force_create call made on a handle of a Materialized cell panicked for
\* want of a runtime: the cell still holds its directory, which is on disk
C12_Witness ==
    \E t \in Calls :
        /\ calls[t].kind = "async"
        /\ calls[t].apc = "panicked"
        /\ calls[t].bpc = "na"
        /\ calls[t].res = NoRes
        /\ cellState[calls[t].c] = "Materialized"
        /\ cellValue[calls[t].c] \in fs
        /\ handles[calls[t].c] >= 1

\* the calls that are running the initializer of cell c
Initializers(c) == {t \in CallsOn(c) : calls[t].bpc \in {"init", "publish"}}

\* C13: at every moment at most one call runs the directory-creating
\* initializer of a cell, and the cell is Materializing exactly while one
\* does; of the calls that have entered get_or_try_init, one on an Empty
\* cell can become the initializer, one on a Materializing cell can take no
\* step (it blocks), and one on a Materialized cell can only read the value.
C13_OneInitializer ==
    \A c \in Cells :
        /\ Cardinality(Initializers(c)) <= 1
        /\ (cellState[c] = "Materializing") = (Initializers(c) # {})
        /\ \A t \in CallsOn(c) :
              calls[t].bpc = "enter" =>
                  /\ cellState[c] \in {"Empty", "Materializing", "Materialized"}
                  /\ (ENABLED get_or_try_init_begin(t)) = (cellState[c] = "Empty")
                  /\ (ENABLED get_or_try_init_get(t)) = (cellState[c] = "Materialized")

\* two calls entered get_or_try_init on one Empty cell: one won and holds
\* the directory it made, not yet stored; the other is blocked behind it
C13_Witness ==
    \E c \in Cells : \E t1, t2 \in CallsOn(c) :
        /\ t1 # t2
        /\ cellState[c] = "Materializing"
        /\ Initializers(c) = {t1}
        /\ calls[t1].bpc = "publish"
        /\ calls[t1].att.tag = "ok"
        /\ calls[t2].bpc = "enter"
        /\ ~ENABLED CallStep(t2)

\* the closure of call t has returned Ok (the body's result, or its image
\* under map) and the awaiter has not yet read the cell back
ClosureSucceeded(t) ==
    /\ calls[t].kind \in {"async", "create"}
    /\ calls[t].apc = "await"
    /\ calls[t].bpc \in {"ret", "done"}
    /\ calls[t].bres.tag = "ok"

\* C14: from the moment the spawned closure has returned Ok until the
\* awaiter reads the cell back, the cell is Materialized and its directory
\* is on disk, whatever the other handles' calls and drops do meanwhile;
\* the read-back therefore finds the value, and no call ever ends in the
\* "BUG: `self.inner` should be initialized at this point!" panic (a call
\* panics only where no closure was ever spawned).
C14_ReadBackFindsValue ==
    \A t \in Calls :
        /\ ClosureSucceeded(t) =>
              /\ cellState[calls[t].c] = "Materialized"
              /\ cellValue[calls[t].c] \in fs
              /\ ReadBack(t) = [pc |-> "done", res |-> Ok(cellValue[calls[t].c])]
        /\ calls[t].apc = "panicked" => calls[t].bpc = "na" /\ ~ClosureSucceeded(t)

\* the closure of a force_create call has made the directory and returned
\* Ok, a second call on the cell has returned Ok as well, one caller's
\* handle is on the cell, and the first awaiter is about to read the cell
C14_Witness ==
    \E t1, t2 \in Calls :
        /\ t1 # t2
        /\ calls[t1].kind = "async"
        /\ calls[t1].attempts = 1
        /\ calls[t1].bpc = "done"
        /\ ClosureSucceeded(t1)
        /\ calls[t2].c = calls[t1].c
        /\ ReturnedOk(t2)
        /\ handles[calls[t1].c] = 1
        /\ ENABLED force_create_resume(t1)

\* a step in which call t returns a path to its caller
ReturnsPath(t) == calls[t].res = NoRes /\ calls'[t].res.tag = "ok"

\* C15: a force_create or force_create_blocking call returns a path only
\* from a Materialized cell: at the moment of the return the cell is
\* Materialized, the path is the cell's directory, the directory is on disk
\* and a caller's handle is on the cell; and for as long as a
\* handle on the cell is alive after that, the cell stays Materialized with
\* that directory, which stays on disk.
C15_PathOnlyFromMaterialized ==
    /\ [][\A t \in Calls :
              ReturnsPath(t) =>
                  /\ cellState'[calls[t].c] = "Materialized"
                  /\ cellState[calls[t].c] \in {"Materializing", "Materialized"}
                  /\ cellState[calls[t].c] = "Materializing" =>
                        calls[t].bpc = "publish" /\ calls[t].att.tag = "ok"
                  /\ calls'[t].res = Ok(cellValue'[calls[t].c])
                  /\ cellValue'[calls[t].c] \in fs'
                  /\ handles'[calls[t].c] >= 1]_vars
    /\ [](\A t \in Calls :
              ReturnedOk(t) /\ handles[calls[t].c] >= 1 =>
                  /\ cellState[calls[t].c] = "Materialized"
                  /\ calls[t].res = Ok(cellValue[calls[t].c])
                  /\ calls[t].res.val \in fs)

\* a force_create call returned the path of the directory its closure made,
\* the closure has released its clone since, and the handle the call was
\* made on is the cell's only owner: the directory is still on disk
C15_Witness ==
    \E t \in Calls :
        /\ calls[t].kind = "async"
        /\ calls[t].apc = "done"
        /\ calls[t].attempts = 1
        /\ calls[t].res = calls[t].att
        /\ calls[t].res.tag = "ok"
        /\ handles[calls[t].c] = 1
        /\ strong[calls[t].c] = 1
        /\ calls[t].res.val \in fs

\* C16: the closure force_create spawns owns a clone of the handle for as
\* long as it is in flight and is counted among the cell's owners, so the
\* cell is alive under it (and the directory in the cell, if any, on disk)
\* even when the awaiter was cancelled and no caller's handle is left; and
\* once a cell has no owner, neither the directory it held nor any
\* directory the provider made for it is on disk.
C16_ClosureIsOwner ==
    /\ \A t \in Calls :
          InFlight(t) =>
              /\ calls[t].this
              /\ strong[calls[t].c] >= handles[calls[t].c] + 1
              /\ cellState[calls[t].c] \in {"Empty", "Materializing", "Materialized"}
              /\ cellState[calls[t].c] = "Materialized" => cellValue[calls[t].c] \in fs
              /\ calls[t].att.tag = "ok" => calls[t].att.val \in fs
    /\ \A c \in Cells :
          Owners(c) = 0 =>
              /\ cellState[c] \in {"Unalloc", "Freed"}
              /\ cellValue[c] \notin fs
              /\ CreatedFor(c) \cap fs = {}

\* the awaiter of a force_create call was cancelled and every caller's
\* handle on the cell is gone; the closure, still in flight, is the only
\* owner of the cell, which holds the directory the closure made
C16_Witness ==
    \E t \in Calls :
        /\ calls[t].kind = "async"
        /\ calls[t].apc = "cancelled"
        /\ InFlight(t)
        /\ handles[calls[t].c] = 0
        /\ Owners(calls[t].c) = 1
        /\ calls[t].attempts = 1
        /\ calls[t].att.tag = "ok"
        /\ cellState[calls[t].c] = "Materialized"
        /\ cellValue[calls[t].c] = calls[t].att.val
        /\ cellValue[calls[t].c] \in fs

\* the io::Error call t holds as the result of its body or has returned
ErrorOf(t) == IF calls[t].res.tag = "err" THEN calls[t].res
              ELSE IF calls[t].bres.tag = "err" THEN calls[t].bres ELSE NoRes

\* C17: the io::Error a force_create_blocking body ends with, and the one a
\* call returns, is the error of the one provider attempt that very call
\* made; a call that has made no attempt of its own (it has just entered
\* get_or_try_init, or waits behind another call's initializer) holds no
\* error and no result, whatever became of the other call's attempt, and
\* once that attempt has failed it can start its own.
C17_ErrorIsOwn ==
    \A t \in Calls :
        /\ ErrorOf(t) # NoRes =>
              /\ calls[t].attempts = 1
              /\ calls[t].att = ErrorOf(t)
              /\ calls[t].res.tag = "err" => calls[t].res = calls[t].att
        /\ calls[t].bpc = "enter" =>
              /\ calls[t].attempts = 0 /\ calls[t].att = NoRes
              /\ calls[t].res = NoRes /\ calls[t].bres = NoRes
              /\ (\E t2 \in Calls : t2 # t /\ calls[t2].c = calls[t].c /\ ErrorOf(t2) # NoRes)
                 /\ cellState[calls[t].c] = "Empty"
                    => ENABLED get_or_try_init_begin(t)

\* two calls on one cell have each made an attempt that failed, with
\* different errors, and each returned the error of its own attempt
C17_Witness ==
    \E t1, t2 \in Calls :
        /\ t1 # t2
        /\ calls[t1].c = calls[t2].c
        /\ calls[t1].kind = "blocking" /\ calls[t2].kind = "blocking"
        /\ Completed(t1) /\ Completed(t2)
        /\ calls[t1].res = Err("PermissionDenied") /\ calls[t1].att = calls[t1].res
        /\ calls[t2].res = Err("StorageFull") /\ calls[t2].att = calls[t2].res
        /\ cellState[calls[t1].c] = "Empty"
====
